---- MODULE Spec2Model ----
(***************************************************************************)
(* Model of the Cloud Datastore cache interceptor                          *)
(* (cache.UnaryClientInterceptor), of the in-memory Cacher (memory.Cache), *)
(* of the query rewriter (transform.QueryToLookupWithKeysOnly) and of the  *)
(* remote Datastore service the interceptors invoke.                       *)
(*                                                                         *)
(* Strings are sequences of one-character strings, so that the canonical   *)
(* key string (keystr) is computed the way the code builds it.             *)
(***************************************************************************)
EXTENDS Integers, Sequences, FiniteSets, TLC

VARIABLES
    store,       \* the remote Datastore: key -> entity data, or Absent
    items,       \* memory.Cache.items: keystr -> item (value, exp)
    expiration,  \* memory.Cache.expiration (0: items never expire)
    now,         \* time.Now().UnixNano() as the cache reads it
    call,        \* the request as the caller handed it to the interceptor
    in,          \* the request object when the interceptor returned
    out,         \* the reply object when the interceptor returned (out.Found)
    ret,         \* the error the interceptor returned
    calls,       \* the Cacher and invoker calls the interceptor made, in order
    interceptor, \* the unary interceptor the client connection was dialed with
    written,     \* what the application itself stored in the cache with
                 \* Cache.SetMulti and has not deleted: key -> item, or NoItem
    running      \* the calls of concurrent goroutines that are under way:
                 \* goroutine -> the call and how far it has come

vars == <<store, items, expiration, now, call, in, out, ret, calls, interceptor, written, running>>

(***************************************************************************)
(* Bounds of the model.                                                    *)
(***************************************************************************)
\* Longest key list of a Lookup request.
MaxKeys == 3

\* Longest mutation list of a Commit request.
MaxMutations == 1

\* Longest mutation list of a Commit request of SpecCommit.
MaxBatch == 2

(***************************************************************************)
(* Sequence helpers.                                                       *)
(***************************************************************************)
Range(s) == {s[i] : i \in DOMAIN s}

SeqsUpTo(S, n) == UNION {[1..m -> S] : m \in 0..n}

Indices(s) == [i \in 1..Len(s) |-> i]

IsDistinct(s) == \A i, j \in DOMAIN s : s[i] = s[j] => i = j

RECURSIVE Flatten(_)
Flatten(ss) == IF ss = <<>> THEN <<>> ELSE Head(ss) \o Flatten(Tail(ss))

\* All orderings of the elements of a finite set.
RECURSIVE Orderings(_)
Orderings(S) ==
    IF S = {} THEN {<<>>}
    ELSE UNION {{<<x>> \o t : t \in Orderings(S \ {x})} : x \in S}

(***************************************************************************)
(* Keys (datastorepb.Key): a namespace and a path of elements, each with a *)
(* kind and an id or a name.                                               *)
(***************************************************************************)
IdElem(kind, id) == [kind |-> kind, idType |-> "id", id |-> id, name |-> <<>>]

NameElem(kind, name) == [kind |-> kind, idType |-> "name", id |-> 0, name |-> name]

NewKey(ns, path) == [ns |-> ns, path |-> path]

\* Kind "a", id 12.
KeyA12 == NewKey(<<>>, <<IdElem(<<"a">>, 12)>>)

\* Kind "a1", id 2.
KeyA1x2 == NewKey(<<>>, <<IdElem(<<"a", "1">>, 2)>>)

\* Kind "c", name "x".
KeyCx == NewKey(<<>>, <<NameElem(<<"c">>, <<"x">>)>>)

\* The keys of the model. keystr writes a kind and an id with nothing between
\* them, so KeyA12 and KeyA1x2 have the same string, "[default]a12".
Keys == {KeyA12, KeyA1x2, KeyCx}

NoKey == NewKey(<<>>, <<>>)

(***************************************************************************)
(* keystr: the canonical string of a key, the index of the cache.          *)
(***************************************************************************)
Digits == <<"0", "1", "2", "3", "4", "5", "6", "7", "8", "9">>

RECURSIVE FormatNat(_)
FormatNat(n) ==
    IF n < 10 THEN <<Digits[n + 1]>>
    ELSE FormatNat(n \div 10) \o <<Digits[(n % 10) + 1]>>

\* strconv.FormatInt(i, 10)
FormatInt(i) == IF i < 0 THEN <<"-">> \o FormatNat(-i) ELSE FormatNat(i)

QuoteChar(c) ==
    IF c = "\"" THEN <<"\\", "\"">>
    ELSE IF c = "\\" THEN <<"\\", "\\">>
    ELSE <<c>>

\* strconv.Quote(s), for printable ASCII strings
Quote(s) == <<"\"">> \o Flatten([i \in DOMAIN s |-> QuoteChar(s[i])]) \o <<"\"">>

DefaultNamespace == <<"[", "d", "e", "f", "a", "u", "l", "t", "]">>

ElemStr(p) ==
    p.kind \o (CASE p.idType = "id" -> FormatInt(p.id)
                 [] p.idType = "name" -> Quote(p.name)
                 [] OTHER -> <<>>)

keystr(key) ==
    (IF key.ns # <<>> THEN key.ns ELSE DefaultNamespace)
        \o Flatten([i \in DOMAIN key.path |-> ElemStr(key.path[i])])

\* keystr of the keys of the model, computed once.
KeyStrings == [k \in Keys |-> keystr(k)]

\* The cache index of a key.
CacheIndex(key) == IF key \in Keys THEN KeyStrings[key] ELSE keystr(key)

(***************************************************************************)
(* key.String(): the text form of a key message, the index of the keymap   *)
(* of the query rewriter.  Every field is written with its name, and the   *)
(* fields are separated.                                                   *)
(***************************************************************************)
ElemText(p) ==
    <<"path:<kind:">> \o Quote(p.kind)
        \o (CASE p.idType = "id" -> <<" id:">> \o FormatInt(p.id)
              [] p.idType = "name" -> <<" name:">> \o Quote(p.name)
              [] OTHER -> <<>>)
        \o <<" > ">>

KeyText(key) ==
    (IF key.ns # <<>> THEN <<"partition_id:<namespace_id:">> \o Quote(key.ns) \o <<" > ">>
     ELSE <<>>)
        \o Flatten([i \in DOMAIN key.path |-> ElemText(key.path[i])])

\* key.String() of the keys of the model, computed once.
KeyTexts == [k \in Keys |-> KeyText(k)]

KeyString(key) == IF key \in Keys THEN KeyTexts[key] ELSE KeyText(key)

(***************************************************************************)
(* Entities and their serialized form (proto.Marshal / proto.Unmarshal of  *)
(* a datastorepb.EntityResult).                                            *)
(***************************************************************************)
Data == {"v1", "v2"}

Absent == "absent"

EntityResult(key, data) == [key |-> key, data |-> data]

NoEntity == EntityResult(NoKey, Absent)

Entities == {EntityResult(k, d) : k \in Keys, d \in Data}

\* A nil []byte.
Nil == [enc |-> "nil", e |-> NoEntity]

\* Bytes that are no serialized EntityResult.
Garbage == [enc |-> "garbage", e |-> NoEntity]

MarshalError == [enc |-> "error", e |-> NoEntity]

UnmarshalError == EntityResult(NoKey, "unmarshal error")

Marshal(e) == IF e.data \in Data THEN [enc |-> "pb", e |-> e] ELSE MarshalError

Unmarshal(b) == IF b.enc = "pb" THEN b.e ELSE UnmarshalError

(***************************************************************************)
(* Errors.                                                                 *)
(***************************************************************************)
NoErr == "nil"

\* The error of a failed remote call (network or service error).
ErrRemote == "remote error"

\* The error of the cache backend that makes GetMulti return nil.
ErrCache == "cache error"

\* The error of a failed cache deletion (errDelCache of the tests).
ErrDelCache == "delete cache error"

\* DelError{wrapped}: an error of its own kind around the error of a cache
\* deletion, written here as its Error() text.
DelError(wrapped) == "cache del: " \o wrapped

\* The errors a Cacher returns.
CacherErrors == {ErrCache, ErrDelCache}

\* DelError.Unwrap(): the wrapped error.
Unwrap(e) == CHOOSE wrapped \in CacherErrors : DelError(wrapped) = e

(***************************************************************************)
(* The in-memory Cacher (memory.Cache).                                    *)
(***************************************************************************)
Item(value, exp) == [value |-> value, exp |-> exp]

\* Mutant of GetMulti: an item is expired from the instant exp on.
GetMultiStrict(its, keys) ==
    [i \in 1..Len(keys) |->
        IF CacheIndex(keys[i]) \in DOMAIN its
           /\ (expiration = 0 \/ its[CacheIndex(keys[i])].exp > now)
        THEN its[CacheIndex(keys[i])].value
        ELSE Nil]

\* memory.Cache.GetMulti
GetMulti(its, keys) ==
    [i \in 1..Len(keys) |->
        IF CacheIndex(keys[i]) \in DOMAIN its
           /\ (expiration = 0 \/ its[CacheIndex(keys[i])].exp >= now)
        THEN its[CacheIndex(keys[i])].value
        ELSE Nil]

\* The exp SetMulti stamps on the items it stores.
SetExp == IF expiration # 0 THEN now + expiration ELSE 0

\* memory.Cache.SetMulti: the loop stores keys[i] -> values[i] in order.
RECURSIVE SetMulti(_, _, _)
SetMulti(its, keys, values) ==
    IF keys = <<>> THEN its
    ELSE SetMulti(
            [s \in DOMAIN its \cup {CacheIndex(Head(keys))} |->
                IF s = CacheIndex(Head(keys)) THEN Item(Head(values), SetExp) ELSE its[s]],
            Tail(keys), Tail(values))

\* Mutant of DeleteMulti: the loop stops after the first key.
DeleteMultiFirst(its, keys) ==
    [s \in DOMAIN its \ {CacheIndex(keys[i]) : i \in DOMAIN keys \cap {1}} |-> its[s]]

\* memory.Cache.DeleteMulti
DeleteMulti(its, keys) ==
    [s \in DOMAIN its \ {CacheIndex(keys[i]) : i \in DOMAIN keys} |-> its[s]]

\* No item: the key was never stored, or its item was deleted.
NoItem == Item(Nil, 0)

\* A new Cache: nothing was stored in it.
NothingWritten == [k \in Keys |-> NoItem]

\* The goroutines that call concurrently.
Goroutines == {"g1", "g2"}

\* No call is under way.
NoneRunning == [g \in Goroutines |-> [pc |-> "idle"]]

\* A Cacher whose backend can fail (Redis): GetMulti returns nil on error.
CacherGetMulti(its, keys, backendErr) ==
    IF backendErr # NoErr THEN <<>> ELSE GetMulti(its, keys)

\* A Cacher whose backend can fail (Redis): a failed DeleteMulti deletes nothing.
CacherDeleteMulti(its, keys, backendErr) ==
    IF backendErr # NoErr THEN its ELSE DeleteMulti(its, keys)

(***************************************************************************)
(* The remote Datastore service behind the invoker.                        *)
(***************************************************************************)
\* The keys of a Lookup that the Datastore holds an entity for.
RemoteFoundKeys(st, keys) == {k \in Range(keys) : st[k] # Absent}

\* LookupResponse.Found of the remote service, listing the found keys in `order`.
RemoteFound(st, order) == [i \in 1..Len(order) |-> EntityResult(order[i], st[order[i]])]

Mutation(op, key, data) == [op |-> op, key |-> key, data |-> data]

Mutations ==
    {Mutation(op, k, d) : op \in {"insert", "update", "upsert"}, k \in Keys, d \in Data}
        \cup {Mutation("delete", k, Absent) : k \in Keys}

\* Whether the Datastore accepts a Commit: no two mutations on one entity, an
\* Insert of a new entity only, an Update of an existing entity only.
CommitAccepted(st, muts) ==
    /\ IsDistinct([i \in DOMAIN muts |-> muts[i].key])
    /\ \A i \in DOMAIN muts :
        /\ muts[i].op = "insert" => st[muts[i].key] = Absent
        /\ muts[i].op = "update" => st[muts[i].key] # Absent

RECURSIVE ApplyMutations(_, _)
ApplyMutations(st, muts) ==
    IF muts = <<>> THEN st
    ELSE ApplyMutations([st EXCEPT ![Head(muts).key] = Head(muts).data], Tail(muts))

(***************************************************************************)
(* Requests, and the record of the calls an interceptor makes.             *)
(***************************************************************************)
MethodLookup == "/google.datastore.v1.Datastore/Lookup"

MethodCommit == "/google.datastore.v1.Datastore/Commit"

\* A request without a project id.
NoProject == ""

\* Query(type, projection, order, limit) of a request that is no RunQuery.
NoQuery == [type |-> "", projection |-> <<>>, order |-> "", limit |-> 0]

LookupRequest(keys, tx) ==
    [method |-> MethodLookup, keys |-> keys, tx |-> tx, muts |-> <<>>,
     projectId |-> NoProject, query |-> NoQuery]

CommitRequest(muts) ==
    [method |-> MethodCommit, keys |-> <<>>, tx |-> FALSE, muts |-> muts,
     projectId |-> NoProject, query |-> NoQuery]

NoRequest ==
    [method |-> "", keys |-> <<>>, tx |-> FALSE, muts |-> <<>>,
     projectId |-> NoProject, query |-> NoQuery]

\* cacher.GetMulti(ctx, keys) returning values
CallGetMulti(keys, values) ==
    [op |-> "GetMulti", req |-> NoRequest, keys |-> keys, values |-> values,
     found |-> <<>>, err |-> NoErr]

\* cacher.SetMulti(ctx, keys, values)
CallSetMulti(keys, values) ==
    [op |-> "SetMulti", req |-> NoRequest, keys |-> keys, values |-> values,
     found |-> <<>>, err |-> NoErr]

\* cacher.DeleteMulti(ctx, keys) returning err
CallDeleteMulti(keys, err) ==
    [op |-> "DeleteMulti", req |-> NoRequest, keys |-> keys, values |-> <<>>,
     found |-> <<>>, err |-> err]

\* invoker(ctx, method, req, reply, ...) with the request as it was sent,
\* the reply's Found and the error it returned
CallInvoke(req, found, err) ==
    [op |-> "Invoke", req |-> req, keys |-> <<>>, values |-> <<>>,
     found |-> found, err |-> err]

(***************************************************************************)
(* The interceptors a client connection can be dialed with.                *)
(***************************************************************************)
\* cache.UnaryClientInterceptor(cacher)
CacheInterceptor == "cache.UnaryClientInterceptor"

\* transform.QueryToLookupWithKeysOnly() of transform/transform.go
RewriterByIndex == "transform.QueryToLookupWithKeysOnly (transform.go)"

\* transform.QueryToLookupWithKeysOnly() of the second source file of package transform
RewriterByKey == "transform.QueryToLookupWithKeysOnly (part_000)"

\* grpc.WithChainUnaryInterceptor(transform.QueryToLookupWithKeysOnly(),
\* cache.UnaryClientInterceptor(cacher)), with the rewriter of transform.go
ChainByIndex == "transform.go rewriter, then cache.UnaryClientInterceptor"

\* The same chain with the rewriter of the second source file.
ChainByKey == "part_000 rewriter, then cache.UnaryClientInterceptor"

(***************************************************************************)
(* cache.UnaryClientInterceptor, the Lookup case.                          *)
(***************************************************************************)
\* Mutant of InTransaction: the transaction of the read options is not looked at.
InTransactionIgnored(req) == FALSE

\* in.GetReadOptions().GetTransaction() != nil
InTransaction(req) == req.tx

\* Mutant of IsHit: the error of proto.Unmarshal is not looked at.
IsHitUndecoded(v) == v # Nil

\* A slot of the GetMulti result that is used: not nil, and it unmarshals.
IsHit(v) == v # Nil /\ Unmarshal(v) # UnmarshalError

\* Mutant of CachedFound: each hit is put in front of found instead of appended.
CachedFoundPrepended(cached) ==
    LET hit == SelectSeq(Indices(cached), LAMBDA i : IsHit(cached[i]))
    IN  [j \in 1..Len(hit) |-> Unmarshal(cached[hit[Len(hit) + 1 - j]])]

\* found after the loop over cached: the decoded hits, in slot order.
CachedFound(cached) ==
    LET hit == SelectSeq(Indices(cached), LAMBDA i : IsHit(cached[i]))
    IN  [j \in 1..Len(hit) |-> Unmarshal(cached[hit[j]])]

\* Mutant of CachedMissing: the keys of the hits are kept in the list.
CachedMissingAll(keys, cached) == [i \in 1..Len(cached) |-> keys[i]]

\* missing after the loop over cached: the keys of the unused slots, in slot order.
CachedMissing(keys, cached) ==
    LET miss == SelectSeq(Indices(cached), LAMBDA i : ~IsHit(cached[i]))
    IN  [j \in 1..Len(miss) |-> keys[miss[j]]]

\* Mutant of RemoteKeys: without the case of a GetMulti that returned nothing.
RemoteKeysFiltered(keys, cached) == CachedMissing(keys, cached)

\* The keys of the remote Lookup: all keys when GetMulti returned nothing.
RemoteKeys(keys, cached) ==
    IF Len(cached) = 0 THEN keys ELSE CachedMissing(keys, cached)

\* Mutant of MergeFound: the reply is left as the remote call filled it.
MergeFoundDropped(got, found) == got

\* Mutant of MergeFound: the cache hits are put in front of the remote finds.
MergeFoundCachedFirst(got, found) == found \o got

\* out.Found = append(out.Found, found...)
MergeFound(got, found) == got \o found

\* Mutant of SaveSource: got is read after the merge.
SaveSourceMerged(got, merged) == merged

\* The entities the save loop ranges over: got, as read before the merge.
SaveSource(got, merged) == got

\* Mutant of RemoteFailure: the error of the remote Lookup is swallowed.
RemoteFailureSwallowed(err) == NoErr

\* The error returned when the remote Lookup fails: the invoker's error.
RemoteFailure(err) == err

\* Mutant of Saved: the result of proto.Marshal is stored whatever its error.
SavedUnchecked(got) == got

\* The entities of got that marshal, which are the ones saved.
Saved(got) == SelectSeq(got, LAMBDA v : Marshal(v) # MarshalError)

\* skeys of the SetMulti call
SaveKeys(got) == [i \in 1..Len(Saved(got)) |-> Saved(got)[i].key]

\* values of the SetMulti call
SaveValues(got) == [i \in 1..Len(Saved(got)) |-> Marshal(Saved(got)[i])]

\* Mutant of NothingFetched: the merge and the save are done in every case.
NothingFetchedNever(got) == FALSE

\* got == nil: the remote Lookup found none of the missing keys.
NothingFetched(got) == got = <<>>

\* in.Keys when the interceptor returns after the remote Lookup returned rerr.
KeysAfterInvoke(keys, missing, rerr) == IF rerr # NoErr THEN missing ELSE keys

\* A Lookup inside a transaction: the call is forwarded as it is.
LookupInTransaction(req, rerr, order) ==
    LET got == IF rerr # NoErr THEN <<>> ELSE RemoteFound(store, order)
    IN  /\ in' = req
        /\ out' = got
        /\ ret' = rerr
        /\ calls' = <<CallInvoke(req, got, rerr)>>
        /\ UNCHANGED items

\* Mutant of LookupFoundAll: the cache is read a second time.
LookupFoundAllReread(req, cerr) ==
    LET keys   == req.keys
        cached == CacherGetMulti(items, keys, cerr)
        found  == CachedFound(cached)
    IN  /\ Len(keys) = Len(found)
        /\ in' = req
        /\ out' = found
        /\ ret' = NoErr
        /\ calls' = <<CallGetMulti(keys, cached), CallGetMulti(keys, cached)>>
        /\ UNCHANGED items

\* A Lookup outside a transaction whose keys are all served from the cache.
LookupFoundAll(req, cerr) ==
    LET keys   == req.keys
        cached == CacherGetMulti(items, keys, cerr)
        found  == CachedFound(cached)
    IN  /\ Len(keys) = Len(found)
        /\ in' = req
        /\ out' = found
        /\ ret' = NoErr
        /\ calls' = <<CallGetMulti(keys, cached)>>
        /\ UNCHANGED items

\* A Lookup outside a transaction that retrieves the missing keys remotely.
LookupRemote(req, cerr, rerr, order) ==
    LET keys    == req.keys
        cached  == CacherGetMulti(items, keys, cerr)
        found   == CachedFound(cached)
        missing == RemoteKeys(keys, cached)
        sent    == [req EXCEPT !.keys = missing]
        got     == IF rerr # NoErr THEN <<>> ELSE RemoteFound(store, order)
        merged  == MergeFound(got, found)
        save    == SaveSource(got, merged)
        get     == CallGetMulti(keys, cached)
        invoke  == CallInvoke(sent, got, rerr)
    IN  /\ Len(keys) # Len(found)
        /\ in' = [req EXCEPT !.keys = KeysAfterInvoke(keys, missing, rerr)]
        /\ IF rerr # NoErr
           THEN /\ ret' = RemoteFailure(rerr)
                /\ out' = <<>>
                /\ calls' = <<get, invoke>>
                /\ UNCHANGED items
           ELSE IF NothingFetched(got)
           THEN /\ ret' = NoErr
                /\ out' = found
                /\ calls' = <<get, invoke>>
                /\ UNCHANGED items
           ELSE /\ ret' = NoErr
                /\ out' = merged
                /\ calls' = <<get, invoke, CallSetMulti(SaveKeys(save), SaveValues(save))>>
                /\ items' = SetMulti(items, SaveKeys(save), SaveValues(save))

\* The orders in which the remote service may list what it found for keys;
\* a failed call (rerr) lists nothing.
ReplyOrders(keys, rerr) ==
    IF rerr # NoErr THEN {<<>>} ELSE Orderings(RemoteFoundKeys(store, keys))

Idle == call = NoRequest

Lookup(keys, tx, cerr, rerr) ==
    LET req == LookupRequest(keys, tx)
    IN  /\ Idle
        /\ call' = req
        /\ IF InTransaction(req)
           THEN /\ cerr = NoErr
                /\ \E order \in ReplyOrders(keys, rerr) :
                      LookupInTransaction(req, rerr, order)
           ELSE \/ rerr = NoErr /\ LookupFoundAll(req, cerr)
                \/ \E order \in ReplyOrders(
                          RemoteKeys(keys, CacherGetMulti(items, keys, cerr)), rerr) :
                      LookupRemote(req, cerr, rerr, order)
        /\ UNCHANGED <<store, expiration, now, interceptor, written, running>>

(***************************************************************************)
(* The Lookup case as the invoker of another interceptor: what the cache   *)
(* interceptor returns for a Lookup request it is handed, over the cache   *)
(* its and the Datastore st.                                               *)
(***************************************************************************)
CacheLookup(its, st, req, cerr, rerr, order) ==
    LET keys    == req.keys
        cached  == CacherGetMulti(its, keys, cerr)
        found   == CachedFound(cached)
        missing == RemoteKeys(keys, cached)
        sent    == [req EXCEPT !.keys = missing]
        got     == IF rerr # NoErr THEN <<>> ELSE RemoteFound(st, order)
        merged  == MergeFound(got, found)
        save    == SaveSource(got, merged)
        get     == CallGetMulti(keys, cached)
        invoke  == CallInvoke(sent, got, rerr)
        after   == [req EXCEPT !.keys = KeysAfterInvoke(keys, missing, rerr)]
    IN  IF InTransaction(req)
        THEN [in |-> req, out |-> got, ret |-> rerr,
              calls |-> <<CallInvoke(req, got, rerr)>>, items |-> its]
        ELSE IF Len(keys) = Len(found)
        THEN [in |-> req, out |-> found, ret |-> NoErr, calls |-> <<get>>, items |-> its]
        ELSE IF rerr # NoErr
        THEN [in |-> after, out |-> <<>>, ret |-> RemoteFailure(rerr),
              calls |-> <<get, invoke>>, items |-> its]
        ELSE IF NothingFetched(got)
        THEN [in |-> after, out |-> found, ret |-> NoErr,
              calls |-> <<get, invoke>>, items |-> its]
        ELSE [in |-> after, out |-> merged, ret |-> NoErr,
              calls |-> <<get, invoke, CallSetMulti(SaveKeys(save), SaveValues(save))>>,
              items |-> SetMulti(its, SaveKeys(save), SaveValues(save))]

\* The outcomes of the Lookup case for a request: the cache backend fails
\* (cerr) or not, the remote Lookup fails or lists what it found in any order.
CacheLookups(its, st, req, cerr) ==
    LET asked == IF InTransaction(req) THEN req.keys
                 ELSE RemoteKeys(req.keys, CacherGetMulti(its, req.keys, cerr))
    IN  {CacheLookup(its, st, req, cerr, rerr, order) :
            rerr \in {NoErr, ErrRemote},
            order \in Orderings(RemoteFoundKeys(st, asked))}

(***************************************************************************)
(* cache.UnaryClientInterceptor, the Commit case.                          *)
(***************************************************************************)
\* Mutant of MutationKeys: the key of an Insert is collected as well.
MutationKeysWithInsert(muts) == [i \in 1..Len(muts) |-> muts[i].key]

\* The keys of the Update, Upsert and Delete mutations, in mutation order.
MutationKeys(muts) ==
    LET sel == SelectSeq(muts, LAMBDA m : m.op \in {"update", "upsert", "delete"})
    IN  [i \in 1..Len(sel) |-> sel[i].key]

\* Mutant of CommitKeys: the keys are invalidated whatever the invoker returned.
CommitKeysEager(muts, rerr) == MutationKeys(muts)

\* keys at the DeleteMulti call: collected after the invoker returned, and
\* not at all when it returned an error.
CommitKeys(muts, rerr) == IF rerr # NoErr THEN <<>> ELSE MutationKeys(muts)

\* Mutant of InvalidationResult: the error is wrapped in a DelError.
InvalidationResultWrapped(cerr) == IF cerr = NoErr THEN NoErr ELSE "cache del: " \o cerr

\* return cacher.DeleteMulti(ctx, keys)
InvalidationResult(cerr) == cerr

\* Mutant of Committed: the write is undone when DeleteMulti fails.
CommittedRolledBack(st, muts, cerr) ==
    IF cerr # NoErr THEN st ELSE ApplyMutations(st, muts)

\* The Datastore when the Commit case returns after a successful remote
\* Commit: nothing follows the DeleteMulti call, whatever it returned (cerr).
Committed(st, muts, cerr) == ApplyMutations(st, muts)

Commit(muts, rerr, cerr) ==
    LET req     == CommitRequest(muts)
        invoke  == CallInvoke(req, <<>>, rerr)
        keys    == CommitKeys(muts, rerr)
    IN  /\ Idle
        /\ call' = req
        /\ in' = req
        /\ out' = <<>>
        /\ rerr = NoErr => CommitAccepted(store, muts)
        /\ store' = IF rerr # NoErr THEN store ELSE Committed(store, muts, cerr)
        /\ IF Len(keys) > 0
           THEN /\ ret' = InvalidationResult(cerr)
                /\ calls' = <<invoke, CallDeleteMulti(keys, cerr)>>
                /\ items' = CacherDeleteMulti(items, keys, cerr)
           ELSE /\ cerr = NoErr
                /\ ret' = rerr
                /\ calls' = <<invoke>>
                /\ UNCHANGED items
        /\ UNCHANGED <<expiration, now, interceptor, written, running>>

(***************************************************************************)
(* The application stores bytes in the cache itself (Cache.SetMulti), as   *)
(* the tests of the cache do with values that are no EntityResult.         *)
(***************************************************************************)
StoreBytes(key, value) ==
    /\ Idle
    /\ items' = SetMulti(items, <<key>>, <<value>>)
    /\ UNCHANGED <<store, expiration, now, call, in, out, ret, calls, interceptor, written, running>>

(***************************************************************************)
(* The caller takes the result; its next call has a new request and reply. *)
(***************************************************************************)
Return ==
    /\ ~Idle
    /\ call' = NoRequest
    /\ in' = NoRequest
    /\ out' = <<>>
    /\ ret' = NoErr
    /\ calls' = <<>>
    /\ UNCHANGED <<store, items, expiration, now, interceptor, written, running>>

(***************************************************************************)
(* The specification.                                                      *)
(***************************************************************************)
Init ==
    /\ store \in [Keys -> Data \cup {Absent}]
    /\ items = <<>>
    /\ expiration = 0
    /\ now = 0
    /\ written = NothingWritten
    /\ running = NoneRunning
    /\ call = NoRequest
    /\ in = NoRequest
    /\ out = <<>>
    /\ ret = NoErr
    /\ calls = <<>>
    /\ interceptor = CacheInterceptor

\* The key lists of the Lookup requests.
KeyLists == SeqsUpTo(Keys, MaxKeys)

\* The mutation lists of the Commit requests.
MutationLists == SeqsUpTo(Mutations, MaxMutations)

Next ==
    \/ /\ Idle
       /\ \E keys \in KeyLists, tx \in BOOLEAN,
             cerr \in {NoErr, ErrCache}, rerr \in {NoErr, ErrRemote} :
               Lookup(keys, tx, cerr, rerr)
    \/ /\ Idle
       /\ \E muts \in MutationLists,
             rerr \in {NoErr, ErrRemote}, cerr \in {NoErr, ErrDelCache} :
               Commit(muts, rerr, cerr)
    \/ /\ Idle
       /\ \E key \in Keys : StoreBytes(key, Garbage)
    \/ Return

Spec == Init /\ [][Next]_vars

(***************************************************************************)
(* The specification of Commits with several mutations: Lookups fill the   *)
(* cache; every write mutation of a Commit writes NewData.                 *)
(***************************************************************************)
\* The property value the Commits of SpecCommit write.
NewData == "v2"

BatchMutations == {m \in Mutations : m.data \in {NewData, Absent}}

\* The mutation lists of the Commit requests of SpecCommit: at most one
\* mutation for a key.
Batches ==
    {muts \in SeqsUpTo(BatchMutations, MaxBatch) :
        IsDistinct([i \in DOMAIN muts |-> muts[i].key])}

NextCommit ==
    \/ /\ Idle
       /\ \E keys \in KeyLists : Lookup(keys, FALSE, NoErr, NoErr)
    \/ /\ Idle
       /\ \E muts \in Batches,
             rerr \in {NoErr, ErrRemote}, cerr \in {NoErr, ErrDelCache} :
               Commit(muts, rerr, cerr)
    \/ Return

SpecCommit == Init /\ [][NextCommit]_vars

(***************************************************************************)
(* RunQuery requests and the remote service's answer to them.              *)
(***************************************************************************)
MethodRunQuery == "/google.datastore.v1.Datastore/RunQuery"

MethodBeginTransaction == "/google.datastore.v1.Datastore/BeginTransaction"

\* query.Projection == nil
NoProjection == <<>>

\* []*datastorepb.Projection{{Property: &datastorepb.PropertyReference{Name: "__key__"}}}
KeysOnly == <<"__key__">>

\* The projection of a query on the property S of the entities.
PropertyProjection == <<"S">>

\* No limit set on the query.
NoLimit == -1

\* Largest limit of a query.
MaxLimit == 1

\* A query: type "query" (RunQueryRequest.Query) or "gql" (RunQueryRequest.GqlQuery).
Query(type, projection, order, limit) ==
    [type |-> type, projection |-> projection, order |-> order, limit |-> limit]

Queries ==
    {Query(type, projection, order, limit) :
        type \in {"query", "gql"},
        projection \in {NoProjection, KeysOnly, PropertyProjection},
        order \in {"asc", "desc"},
        limit \in {NoLimit} \cup 0..MaxLimit}

ProjectIds == {"test", "test2"}

RunQueryRequest(projectId, tx, query) ==
    [method |-> MethodRunQuery, keys |-> <<>>, tx |-> tx, muts |-> <<>>,
     projectId |-> projectId, query |-> query]

\* A request of a method with no fields the interceptors look at.
OtherRequest(method) == [NoRequest EXCEPT !.method = method]

ResultUnspecified == "RESULT_TYPE_UNSPECIFIED"

ResultFull == "FULL"

ResultKeyOnly == "KEY_ONLY"

ResultProjection == "PROJECTION"

\* RunQueryResponse.Batch: EntityResults and EntityResultType
Batch(results, type) == [results |-> results, type |-> type]

\* The batch of a reply object no call has filled.
EmptyBatch == Batch(<<>>, ResultUnspecified)

\* The entity of a keys-only result: the key and no properties.
KeyOnlyData == "no properties"

\* The entity of a projection result: the projected property only.
ProjectedData(d) == "S of " \o d

\* The keys of the model in the key order of the Datastore (kind, then id or name).
KeyOrder == <<KeyA12, KeyA1x2, KeyCx>>

Reverse(s) == [i \in 1..Len(s) |-> s[Len(s) + 1 - i]]

\* The keys of the entities a query returns, in result order.
QueryKeys(st, query) ==
    LET present == SelectSeq(KeyOrder, LAMBDA k : st[k] # Absent)
        ordered == IF query.order = "desc" THEN Reverse(present) ELSE present
    IN  IF query.limit = NoLimit \/ query.limit >= Len(ordered) THEN ordered
        ELSE SubSeq(ordered, 1, query.limit)

\* The batch the Datastore returns for a query.
RemoteRunQuery(st, query) ==
    LET keys == QueryKeys(st, query)
    IN  CASE query.projection = NoProjection ->
                Batch([i \in 1..Len(keys) |-> EntityResult(keys[i], st[keys[i]])], ResultFull)
          [] query.projection = KeysOnly ->
                Batch([i \in 1..Len(keys) |-> EntityResult(keys[i], KeyOnlyData)], ResultKeyOnly)
          [] OTHER ->
                Batch([i \in 1..Len(keys) |-> EntityResult(keys[i], ProjectedData(st[keys[i]]))],
                      ResultProjection)

\* The replies the remote service may give to a forwarded request; a failed
\* call (rerr) leaves the reply object as it was.
RemoteReplies(st, req, rerr) ==
    CASE req.method = MethodRunQuery ->
            {IF rerr # NoErr THEN EmptyBatch ELSE RemoteRunQuery(st, req.query)}
      [] req.method = MethodLookup ->
            {RemoteFound(st, order) :
                order \in IF rerr # NoErr THEN {<<>>}
                          ELSE Orderings(RemoteFoundKeys(st, req.keys))}
      [] OTHER -> {<<>>}

(***************************************************************************)
(* The pass-through of a call: return invoker(ctx, method, req, reply, ...) *)
(***************************************************************************)
\* Mutant of Forwarded: the read options are not handed on.
ForwardedWithoutReadOptions(req) == [req EXCEPT !.tx = FALSE]

\* The request object the invoker is called with in a pass-through.
Forwarded(req) == req

Forward(req, rerr) ==
    \E reply \in RemoteReplies(store, Forwarded(req), rerr) :
        /\ call' = req
        /\ in' = req
        /\ out' = reply
        /\ ret' = rerr
        /\ calls' = <<CallInvoke(Forwarded(req), reply, rerr)>>
        /\ UNCHANGED <<store, items, expiration, now, interceptor, written, running>>

\* cache.UnaryClientInterceptor for a method that is neither Lookup nor Commit.
CacheForward(req, rerr) ==
    /\ Idle
    /\ interceptor = CacheInterceptor
    /\ req.method \notin {MethodLookup, MethodCommit}
    /\ Forward(req, rerr)

(***************************************************************************)
(* transform.QueryToLookupWithKeysOnly, in its two source files: they      *)
(* differ in how the entities of the Lookup reply are put in the batch.    *)
(***************************************************************************)
Rewriters == {RewriterByIndex, RewriterByKey}

\* errors.New("could not lookup entities with same length as keys")
ErrLength == "could not lookup entities with same length as keys"

\* query == nil: the request holds a GQL query.
IsGQL(query) == query.type # "query"

\* Mutant of HasProjection: only a keys-only projection is recognised.
HasProjectionKeysOnly(query) == query.projection = KeysOnly

\* query.GetProjection() != nil
HasProjection(query) == query.projection # NoProjection

\* The calls the rewriter forwards as they are.
PassedThrough(req) ==
    \/ req.method # MethodRunQuery
    \/ IsGQL(req.query)
    \/ HasProjection(req.query)

\* query.Projection = []*datastorepb.Projection{{... Name: "__key__"}}
WithKeysOnly(req) == [req EXCEPT !.query.projection = KeysOnly]

\* Mutant of ProjectionRestored: the projection is left as it was sent.
ProjectionKept(req) == req

\* The deferred query.Projection = nil
ProjectionRestored(req) == [req EXCEPT !.query.projection = NoProjection]

\* Mutant of GetRequest: the project id is not copied.
GetRequestWithoutProject(req, result) ==
    LookupRequest([i \in 1..Len(result) |-> result[i].key], req.tx)

\* getReq: ProjectId and ReadOptions of the RunQuery request, the keys of the results.
GetRequest(req, result) ==
    [LookupRequest([i \in 1..Len(result) |-> result[i].key], req.tx)
        EXCEPT !.projectId = req.projectId]

\* keymap[key.String()] = i, for i over the results in order.
KeyMap(result) ==
    [t \in {KeyString(result[i].key) : i \in DOMAIN result} |->
        CHOOSE i \in DOMAIN result :
            /\ KeyString(result[i].key) = t
            /\ \A j \in DOMAIN result : KeyString(result[j].key) = t => j <= i]

\* keymap[e.GetKey().String()]: the slot of the key, the first slot for a
\* key the map does not hold.
KeyMapSlot(keymap, key) ==
    IF KeyString(key) \in DOMAIN keymap THEN keymap[KeyString(key)] ELSE 1

\* part_000: each found entity is put in the slot the keymap gives for its key.
RECURSIVE SpliceByKey(_, _, _)
SpliceByKey(result, keymap, found) ==
    IF found = <<>> THEN result
    ELSE SpliceByKey([result EXCEPT ![KeyMapSlot(keymap, Head(found).key)] = Head(found)],
                     keymap, Tail(found))

\* transform.go: found[i] is put in slot i.
SpliceByIndex(result, found) ==
    [i \in DOMAIN result |-> IF i \in DOMAIN found THEN found[i] ELSE result[i]]

\* out.Batch.EntityResults after the loop over found.
Splice(impl, result, found) ==
    IF impl \in {RewriterByKey, ChainByKey} THEN SpliceByKey(result, KeyMap(result), found)
    ELSE SpliceByIndex(result, found)

\* The Datastore after other clients deleted the entities of the keys in
\* gone, between the keys-only query and the Lookup.
Deleted(st, gone) == [k \in Keys |-> IF k \in gone THEN Absent ELSE st[k]]

\* Mutant of NothingFound: the Lookup is made for an empty batch as well.
NothingFoundNever(result) == FALSE

\* len(result) == 0
NothingFound(result) == Len(result) = 0

\* Mutant of CountMismatch: the lengths are not compared.
CountMismatchIgnored(found, result) == FALSE

\* len(found) != len(result)
CountMismatch(found, result) == Len(found) # Len(result)

\* Mutant of LookupFailure: the error of the Lookup is replaced.
LookupFailureReplaced(err) == ErrLength

\* The error returned when the Lookup fails: the invoker's error.
LookupFailure(err) == err

\* The invoker handed to the rewriter is the cache interceptor.
Chains == {ChainByIndex, ChainByKey}

\* The outcomes of the rewriter's Lookup call over the Datastore st: of the
\* cache interceptor in a chain, of the remote service otherwise.
InnerLookups(st, getReq) ==
    IF interceptor \in Chains
    THEN UNION {CacheLookups(items, st, getReq, cerr) : cerr \in {NoErr, ErrCache}}
    ELSE {[in |-> getReq, out |-> found.got, ret |-> found.err,
           calls |-> <<CallInvoke(getReq, found.got, found.err)>>, items |-> items] :
            found \in {[got |-> <<>>, err |-> ErrRemote]} \cup
                      {[got |-> RemoteFound(st, order), err |-> NoErr] :
                          order \in Orderings(RemoteFoundKeys(st, getReq.keys))}}

\* The sets of entities other clients delete during a rewritten query.
GoneSets == {{}} \cup {{k} : k \in Keys}

\* The rewrite of a structured query without projection: the keys-only
\* query fails with serr or succeeds; other clients may delete an entity of
\* the results before the Lookup, which goes to the rewriter's invoker.
Rewrite(req, serr) ==
    LET sent    == WithKeysOnly(req)
        scan    == IF serr # NoErr THEN EmptyBatch ELSE RemoteRunQuery(store, sent.query)
        result  == scan.results
        getReq  == GetRequest(req, result)
        first   == CallInvoke(sent, scan, serr)
    IN  /\ in' = ProjectionRestored(sent)
        /\ IF serr # NoErr
           THEN /\ ret' = serr
                /\ out' = scan
                /\ calls' = <<first>>
                /\ UNCHANGED <<store, items>>
           ELSE IF NothingFound(result)
           THEN /\ ret' = NoErr
                /\ out' = scan
                /\ calls' = <<first>>
                /\ UNCHANGED <<store, items>>
           ELSE \E gone \in GoneSets :
                /\ gone \subseteq {result[i].key : i \in DOMAIN result}
                /\ req.tx => gone = {}
                /\ store' = Deleted(store, gone)
                /\ \E inner \in InnerLookups(Deleted(store, gone), getReq) :
                    /\ calls' = <<first>> \o inner.calls
                    /\ items' = inner.items
                    /\ IF inner.ret # NoErr
                       THEN ret' = LookupFailure(inner.ret) /\ out' = scan
                       ELSE IF CountMismatch(inner.out, result)
                       THEN ret' = ErrLength /\ out' = scan
                       ELSE /\ ret' = NoErr
                            /\ out' = Batch(Splice(interceptor, result, inner.out), ResultFull)

QueryToLookupWithKeysOnly(req, serr) ==
    /\ Idle
    /\ interceptor \in Rewriters \cup Chains
    /\ IF PassedThrough(req)
       THEN Forward(req, serr)
       ELSE /\ call' = req
            /\ Rewrite(req, serr)
            /\ UNCHANGED <<expiration, now, interceptor, written, running>>

(***************************************************************************)
(* The specification of a client dialed with one of the interceptors, for  *)
(* the calls an interceptor forwards and for the queries it rewrites.      *)
(***************************************************************************)
InitQuery ==
    /\ store \in [Keys -> Data \cup {Absent}]
    /\ items = <<>>
    /\ expiration = 0
    /\ now = 0
    /\ written = NothingWritten
    /\ running = NoneRunning
    /\ call = NoRequest
    /\ in = NoRequest
    /\ out = <<>>
    /\ ret = NoErr
    /\ calls = <<>>
    /\ interceptor \in {CacheInterceptor} \cup Rewriters

QueryRequests ==
    {RunQueryRequest(p, tx, q) : p \in ProjectIds, tx \in BOOLEAN, q \in Queries}

\* The requests of the model that the cache interceptor forwards.
CacheForwardRequests == QueryRequests \cup {OtherRequest(MethodBeginTransaction)}

\* The requests of the model that go through the query rewriter.
RewriterRequests ==
    QueryRequests \cup {OtherRequest(MethodBeginTransaction)}
        \cup {LookupRequest(keys, tx) : keys \in KeyLists, tx \in BOOLEAN}

NextQuery ==
    \/ /\ Idle
       /\ \E req \in CacheForwardRequests, rerr \in {NoErr, ErrRemote} :
             CacheForward(req, rerr)
    \/ /\ Idle
       /\ \E req \in RewriterRequests, serr \in {NoErr, ErrRemote} :
               QueryToLookupWithKeysOnly(req, serr)
    \/ Return

SpecQuery == InitQuery /\ [][NextQuery]_vars

(***************************************************************************)
(* The specification of a client dialed with the chain of the README: the  *)
(* query rewriter in front of the cache interceptor.  A Lookup passes the  *)
(* rewriter unchanged and is served by the cache interceptor; the calls of *)
(* a rewritten query go to the cache interceptor, which forwards the       *)
(* RunQuery and serves the Lookup.                                         *)
(***************************************************************************)
InitChain ==
    /\ store \in [Keys -> Data \cup {Absent}]
    /\ items = <<>>
    /\ expiration = 0
    /\ now = 0
    /\ written = NothingWritten
    /\ running = NoneRunning
    /\ call = NoRequest
    /\ in = NoRequest
    /\ out = <<>>
    /\ ret = NoErr
    /\ calls = <<>>
    /\ interceptor \in Chains

\* The structured queries without projection of the model.
EligibleRequests ==
    {req \in QueryRequests : ~PassedThrough(req)}

NextChain ==
    \/ /\ Idle
       /\ \E keys \in KeyLists : Lookup(keys, FALSE, NoErr, NoErr)
    \/ /\ Idle
       /\ \E req \in EligibleRequests, serr \in {NoErr, ErrRemote} :
             QueryToLookupWithKeysOnly(req, serr)
    \/ Return

SpecChain == InitChain /\ [][NextChain]_vars

(***************************************************************************)
(* A Lookup whose context is cancelled while the cache interceptor serves  *)
(* it.  The interceptor hands ctx to the Cacher and to the invoker and     *)
(* never reads it; memory.Cache uses it for the trace span only.  The      *)
(* cancellation is recorded among the calls, at the point it happened.     *)
(***************************************************************************)
\* The error of an invoker whose context is cancelled.
ErrCanceled == "context canceled"

\* A Lookup outside a transaction whose context is cancelled before call
\* number at of the Lookup case: after the cache read (at = 2) or after the
\* remote Lookup returned (at = 3).  Cancelled before or during the remote
\* call, the invoker returns the cancellation, or success when the reply
\* arrived first; cancelled after it returned, the remote call is not affected.
LookupCancelled(keys, cerr, at) ==
    LET req    == LookupRequest(keys, FALSE)
        asked  == RemoteKeys(keys, CacherGetMulti(items, keys, cerr))
        cancel == [op |-> "Cancel", req |-> NoRequest, keys |-> <<>>,
                   values |-> <<>>, found |-> <<>>, err |-> NoErr]
    IN  /\ Idle
        /\ call' = req
        /\ \E rerr \in (IF at = 2 THEN {ErrCanceled, NoErr} ELSE {NoErr, ErrRemote}),
              order \in Orderings(RemoteFoundKeys(store, asked)) :
                LET r == CacheLookup(items, store, req, cerr, rerr, order)
                IN  /\ at <= Len(r.calls)
                    /\ in' = r.in
                    /\ out' = r.out
                    /\ ret' = r.ret
                    /\ calls' = SubSeq(r.calls, 1, at - 1) \o <<cancel>>
                                    \o SubSeq(r.calls, at, Len(r.calls))
                    /\ items' = r.items
        /\ UNCHANGED <<store, expiration, now, interceptor, written, running>>

NextCancel ==
    \/ /\ Idle
       /\ \E keys \in KeyLists : Lookup(keys, FALSE, NoErr, NoErr)
    \/ /\ Idle
       /\ \E keys \in KeyLists, cerr \in {NoErr, ErrCache}, at \in {2, 3} :
               LookupCancelled(keys, cerr, at)
    \/ Return

SpecCancel == Init /\ [][NextCancel]_vars

(***************************************************************************)
(* The keystr of the three cache backends, applied to pairs of keys.  The  *)
(* in-memory and the App Engine memcache backends write the namespace and  *)
(* each kind and id or name one after the other; the Redis backend joins   *)
(* the same parts with "/".                                                *)
(***************************************************************************)
\* The packages with a keystr of their own: cache/memory, cache/aememcache
\* and the Redis cache.
Backends == {"memory.keystr", "aememcache.keystr", "redis.keystr"}

\* strings.Join(s, sep)
RECURSIVE Join(_, _)
Join(s, sep) ==
    IF s = <<>> THEN <<>>
    ELSE IF Len(s) = 1 THEN s[1]
    ELSE s[1] \o sep \o Join(Tail(s), sep)

\* keystr of the Redis backend: the namespace, then the kind and the id or
\* name of each path element, joined with "/".
RedisKeystr(key) ==
    LET parts(p) ==
            <<p.kind>> \o (CASE p.idType = "id" -> <<FormatInt(p.id)>>
                             [] p.idType = "name" -> <<Quote(p.name)>>
                             [] OTHER -> <<>>)
    IN  Join(<<IF key.ns # <<>> THEN key.ns ELSE DefaultNamespace>>
                 \o Flatten([i \in DOMAIN key.path |-> parts(key.path[i])]),
             <<"/">>)

\* keystr of the given backend; the App Engine memcache backend has the
\* same function body as the in-memory backend.
BackendKeystr(backend, key) ==
    IF backend = "redis.keystr" THEN RedisKeystr(key) ELSE keystr(key)

\* The keys keystr is applied to: the keys of the model and
\*   kind "a", id 12, in namespace "n";
\*   kind "a" with id 1, then kind "b" with id 2;
\*   kind "a/1/b", id 2;
\*   kind "a" with id 12, then kind "c" with name "x".
KeyPool ==
    Keys \cup {NewKey(<<"n">>, <<IdElem(<<"a">>, 12)>>),
               NewKey(<<>>, <<IdElem(<<"a">>, 1), IdElem(<<"b">>, 2)>>),
               NewKey(<<>>, <<IdElem(<<"a", "/", "1", "/", "b">>, 2)>>),
               NewKey(<<>>, <<IdElem(<<"a">>, 12), NameElem(<<"c">>, <<"x">>)>>)}

\* One backend computes the cache index of two keys.
Keystr(backend, k1, k2) ==
    /\ Idle
    /\ call' = [NoRequest EXCEPT !.method = "keystr", !.keys = <<k1, k2>>]
    /\ in' = call'
    /\ out' = <<BackendKeystr(backend, k1), BackendKeystr(backend, k2)>>
    /\ ret' = NoErr
    /\ calls' = <<[op |-> backend, req |-> NoRequest, keys |-> <<k1, k2>>,
                   values |-> out', found |-> <<>>, err |-> NoErr]>>
    /\ UNCHANGED <<store, items, expiration, now, interceptor, written, running>>

NextKeystr ==
    \/ /\ Idle
       /\ \E backend \in Backends, k1, k2 \in KeyPool : Keystr(backend, k1, k2)
    \/ Return

SpecKeystr == Init /\ [][NextKeystr]_vars

(***************************************************************************)
(* The in-memory Cache used by itself: an application stores, reads and    *)
(* deletes items with SetMulti, GetMulti and DeleteMulti while the clock   *)
(* advances.  The Cache is created with an expiration of 0 (items never    *)
(* expire) or more.                                                        *)
(***************************************************************************)
MaxExpiration == 1

MaxTime == 2

MethodGetMulti == "memory.Cache.GetMulti"

MethodSetMulti == "memory.Cache.SetMulti"

MethodDeleteMulti == "memory.Cache.DeleteMulti"

CacheRequest(method, keys) ==
    [method |-> method, keys |-> keys, tx |-> FALSE, muts |-> <<>>,
     projectId |-> NoProject, query |-> NoQuery]

\* The values the application stores.
CacheValues == {Garbage, Marshal(EntityResult(KeyCx, "v1"))}

\* The key lists of the direct cache calls: empty, with repeated keys.
CacheKeyLists == SeqsUpTo(Keys, MaxBatch)

\* What the application has stored after SetMulti(keys, values): for each
\* key the last value given for it, with the exp of this SetMulti.
RECURSIVE Stored(_, _, _)
Stored(w, keys, values) ==
    IF keys = <<>> THEN w
    ELSE Stored([w EXCEPT ![Head(keys)] = Item(Head(values), SetExp)],
                Tail(keys), Tail(values))

\* What the application has stored after DeleteMulti(keys).
Erased(w, keys) ==
    [k \in DOMAIN w |-> IF k \in Range(keys) THEN NoItem ELSE w[k]]

CacheSetMulti(keys, values) ==
    /\ Idle
    /\ Len(keys) = Len(values)
    /\ call' = CacheRequest(MethodSetMulti, keys)
    /\ in' = call'
    /\ out' = <<>>
    /\ ret' = NoErr
    /\ calls' = <<CallSetMulti(keys, values)>>
    /\ items' = SetMulti(items, keys, values)
    /\ written' = Stored(written, keys, values)
    /\ UNCHANGED <<store, expiration, now, interceptor, running>>

CacheGetMulti(keys) ==
    /\ Idle
    /\ call' = CacheRequest(MethodGetMulti, keys)
    /\ in' = call'
    /\ out' = GetMulti(items, keys)
    /\ ret' = NoErr
    /\ calls' = <<CallGetMulti(keys, out')>>
    /\ UNCHANGED <<store, items, expiration, now, interceptor, written, running>>

CacheDeleteMulti(keys) ==
    /\ Idle
    /\ call' = CacheRequest(MethodDeleteMulti, keys)
    /\ in' = call'
    /\ out' = <<>>
    /\ ret' = NoErr
    /\ calls' = <<CallDeleteMulti(keys, NoErr)>>
    /\ items' = DeleteMulti(items, keys)
    /\ written' = Erased(written, keys)
    /\ UNCHANGED <<store, expiration, now, interceptor, running>>

\* time.Now() moves on between two calls.
Tick ==
    /\ Idle
    /\ now < MaxTime
    /\ now' = now + 1
    /\ UNCHANGED <<store, items, expiration, call, in, out, ret, calls,
                   interceptor, written, running>>

\* NewCache(expiration)
InitCache ==
    /\ store = [k \in Keys |-> Absent]
    /\ items = <<>>
    /\ expiration \in 0..MaxExpiration
    /\ now = 0
    /\ written = NothingWritten
    /\ running = NoneRunning
    /\ call = NoRequest
    /\ in = NoRequest
    /\ out = <<>>
    /\ ret = NoErr
    /\ calls = <<>>
    /\ interceptor = CacheInterceptor

NextCache ==
    \/ /\ Idle
       /\ \E keys \in CacheKeyLists :
            \E values \in [1..Len(keys) -> CacheValues] : CacheSetMulti(keys, values)
    \/ /\ Idle
       /\ \E keys \in CacheKeyLists : CacheGetMulti(keys)
    \/ /\ Idle
       /\ \E keys \in CacheKeyLists : CacheDeleteMulti(keys)
    \/ Tick
    \/ Return

SpecCache == InitCache /\ [][NextCache]_vars

(***************************************************************************)
(* Goroutines that call GetMulti, SetMulti and DeleteMulti of one          *)
(* in-memory Cache at the same time.  Each method takes c.mu (RLock in     *)
(* GetMulti, Lock in SetMulti and DeleteMulti), loops over its keys one at *)
(* a time and releases c.mu when it returns.                               *)
(***************************************************************************)
\* The key lists of the concurrent calls: distinct keys, in every order.
BatchKeyLists ==
    {l \in UNION {Orderings(S) : S \in SUBSET Keys \ {{}}} : Len(l) <= MaxBatch}

\* The value a goroutine stores for every key of its SetMulti.
ValueOf(g) == IF g = "g1" THEN Garbage ELSE Marshal(EntityResult(KeyCx, "v1"))

\* The goroutines that hold c.mu, for reading or for writing.
Holders == {g \in Goroutines : running[g].pc = "locked"}

\* Mutant of CanLock: c.mu excludes nobody.
CanLockAlways(g, op) == TRUE

\* c.mu.RLock() returns when no writer holds c.mu, c.mu.Lock() when nobody does.
CanLock(g, op) ==
    IF op = MethodGetMulti
    THEN \A h \in Holders : running[h].op = MethodGetMulti
    ELSE Holders = {}

\* A goroutine calls a method of the Cache and waits for c.mu.
Go(g, op, keys) ==
    /\ running[g].pc = "idle"
    /\ running' = [running EXCEPT ![g] =
            [pc |-> "waiting", op |-> op, keys |-> keys,
             values |-> [i \in DOMAIN keys |-> ValueOf(g)],
             i |-> 1, before |-> <<>>, ret |-> <<>>]]
    /\ UNCHANGED <<store, items, expiration, now, call, in, out, ret, calls,
                   interceptor, written>>

\* The goroutine gets c.mu; GetMulti makes its result slice.  before is the
\* map as it is at this instant.
Locked(g) ==
    /\ running[g].pc = "waiting"
    /\ CanLock(g, running[g].op)
    /\ running' = [running EXCEPT ![g].pc = "locked", ![g].before = items,
                                  ![g].ret = [i \in DOMAIN running[g].keys |-> Nil]]
    /\ UNCHANGED <<store, items, expiration, now, call, in, out, ret, calls,
                   interceptor, written>>

\* One iteration of the loop over the keys.
LoopStep(g) ==
    LET r == running[g]
        k == <<r.keys[r.i]>>
    IN  /\ r.pc = "locked"
        /\ r.i <= Len(r.keys)
        /\ items' = CASE r.op = MethodSetMulti -> SetMulti(items, k, <<r.values[r.i]>>)
                      [] r.op = MethodDeleteMulti -> DeleteMulti(items, k)
                      [] OTHER -> items
        /\ running' = [running EXCEPT ![g].i = r.i + 1,
                ![g].ret = IF r.op = MethodGetMulti
                           THEN [r.ret EXCEPT ![r.i] = GetMulti(items, k)[1]]
                           ELSE r.ret]
        /\ UNCHANGED <<store, expiration, now, call, in, out, ret, calls,
                       interceptor, written>>

\* The method returns: the deferred Unlock or RUnlock runs.
Unlocked(g) ==
    /\ running[g].pc = "locked"
    /\ running[g].i > Len(running[g].keys)
    /\ running' = [running EXCEPT ![g].pc = "returned"]
    /\ UNCHANGED <<store, items, expiration, now, call, in, out, ret, calls,
                   interceptor, written>>

\* The goroutines have returned; the next calls start.
Joined ==
    /\ \A g \in Goroutines : running[g].pc = "returned"
    /\ running' = NoneRunning
    /\ UNCHANGED <<store, items, expiration, now, call, in, out, ret, calls,
                   interceptor, written>>

NextMutex ==
    \/ \E g \in Goroutines, keys \in BatchKeyLists,
          op \in {MethodGetMulti, MethodSetMulti, MethodDeleteMulti} : Go(g, op, keys)
    \/ \E g \in Goroutines : Locked(g)
    \/ \E g \in Goroutines : LoopStep(g)
    \/ \E g \in Goroutines : Unlocked(g)
    \/ Joined

SpecMutex == InitCache /\ [][NextMutex]_vars

(***************************************************************************)
(* Calls that run at the same time through interceptors that share one     *)
(* in-memory cache.  The goroutines run the Lookup case on one request     *)
(* object, `in` (call is the request as the caller made it); each Cacher   *)
(* call and the invoker call is a step of its own, and another client's    *)
(* Commit can take place between two steps.                                *)
(***************************************************************************)
\* The caller makes a Lookup request and hands it to the goroutines.
LookupRequested(keys) ==
    /\ Idle
    /\ running = NoneRunning
    /\ call' = LookupRequest(keys, FALSE)
    /\ in' = call'
    /\ UNCHANGED <<store, items, expiration, now, out, ret, calls, interceptor,
                   written, running>>

\* keys := in.GetKeys(), cacher.GetMulti and the loop over cached; when
\* something is missing, in.Keys = missing.
LookupStarted(g) ==
    LET keys    == in.keys
        cached  == GetMulti(items, keys)
        found   == CachedFound(cached)
        missing == RemoteKeys(keys, cached)
    IN  /\ ~Idle
        /\ running[g].pc = "idle"
        /\ IF Len(keys) = Len(found)
           THEN /\ running' = [running EXCEPT ![g] =
                        [pc |-> "returned", keys |-> keys, found |-> found,
                         got |-> <<>>, out |-> found, ret |-> NoErr]]
                /\ UNCHANGED in
           ELSE /\ running' = [running EXCEPT ![g] =
                        [pc |-> "invoking", keys |-> keys, found |-> found,
                         got |-> <<>>, out |-> <<>>, ret |-> NoErr]]
                /\ in' = [in EXCEPT !.keys = missing]
        /\ UNCHANGED <<store, items, expiration, now, call, out, ret, calls,
                       interceptor, written>>

\* The invoker sends the request object as it is now and returns; on
\* success in.Keys = keys, then the reply is merged.
LookupInvoked(g, rerr, order) ==
    LET r   == running[g]
        got == RemoteFound(store, order)
    IN  /\ r.pc = "invoking"
        /\ order \in ReplyOrders(in.keys, rerr)
        /\ IF rerr # NoErr
           THEN /\ running' = [running EXCEPT ![g].pc = "returned",
                                              ![g].ret = RemoteFailure(rerr)]
                /\ UNCHANGED in
           ELSE /\ in' = [in EXCEPT !.keys = r.keys]
                /\ running' = [running EXCEPT ![g] =
                        IF NothingFetched(got)
                        THEN [r EXCEPT !.pc = "returned", !.out = r.found]
                        ELSE [r EXCEPT !.pc = "saving", !.got = got,
                                       !.out = MergeFound(got, r.found)]]
        /\ UNCHANGED <<store, items, expiration, now, call, out, ret, calls,
                       interceptor, written>>

\* The save loop and cacher.SetMulti.
LookupSaved(g) ==
    LET save == SaveSource(running[g].got, running[g].out)
    IN  /\ running[g].pc = "saving"
        /\ items' = SetMulti(items, SaveKeys(save), SaveValues(save))
        /\ running' = [running EXCEPT ![g].pc = "returned"]
        /\ UNCHANGED <<store, expiration, now, call, in, out, ret, calls,
                       interceptor, written>>

\* Every goroutine that was started has returned; the caller drops the request.
LookupsReturned ==
    /\ ~Idle
    /\ \A g \in Goroutines : running[g].pc \in {"idle", "returned"}
    /\ \E g \in Goroutines : running[g].pc = "returned"
    /\ running' = NoneRunning
    /\ call' = NoRequest
    /\ in' = NoRequest
    /\ UNCHANGED <<store, items, expiration, now, out, ret, calls, interceptor,
                   written>>

\* The Commit case run by another client with its own request, from the
\* invoker to the return of cacher.DeleteMulti; both succeed.
ConcurrentCommit(muts) ==
    /\ CommitAccepted(store, muts)
    /\ store' = Committed(store, muts, NoErr)
    /\ items' = CacherDeleteMulti(items, CommitKeys(muts, NoErr), NoErr)
    /\ UNCHANGED <<expiration, now, call, in, out, ret, calls, interceptor,
                   written, running>>

\* One goroutine runs Lookups while another client commits.
NextRace ==
    \/ \E keys \in BatchKeyLists : LookupRequested(keys)
    \/ LookupStarted("g1")
    \/ \E rerr \in {NoErr, ErrRemote} :
            \E order \in ReplyOrders(in.keys, rerr) : LookupInvoked("g1", rerr, order)
    \/ LookupSaved("g1")
    \/ LookupsReturned
    \/ \E muts \in MutationLists : ConcurrentCommit(muts)

SpecRace == Init /\ [][NextRace]_vars

\* The goroutines run a Lookup each, with the same request object.
NextShared ==
    \/ \E keys \in BatchKeyLists : LookupRequested(keys)
    \/ \E g \in Goroutines : LookupStarted(g)
    \/ \E g \in Goroutines, rerr \in {NoErr, ErrRemote} :
            \E order \in ReplyOrders(in.keys, rerr) : LookupInvoked(g, rerr, order)
    \/ \E g \in Goroutines : LookupSaved(g)
    \/ LookupsReturned

SpecShared == Init /\ [][NextShared]_vars

(***************************************************************************)
(* Lookups over a Datastore that holds entities proto.Marshal fails on.    *)
(***************************************************************************)
\* The data of an entity that the remote Lookup returns and proto.Marshal
\* does not serialize.
NoMarshal == "unserializable"

InitMarshal ==
    /\ store \in [Keys -> {"v1", Absent, NoMarshal}]
    /\ items = <<>>
    /\ expiration = 0
    /\ now = 0
    /\ written = NothingWritten
    /\ running = NoneRunning
    /\ call = NoRequest
    /\ in = NoRequest
    /\ out = <<>>
    /\ ret = NoErr
    /\ calls = <<>>
    /\ interceptor = CacheInterceptor

NextMarshal ==
    \/ /\ Idle
       /\ \E keys \in KeyLists, cerr \in {NoErr, ErrCache}, rerr \in {NoErr, ErrRemote} :
               Lookup(keys, FALSE, cerr, rerr)
    \/ Return

SpecMarshal == InitMarshal /\ [][NextMarshal]_vars

(***************************************************************************)
(* What the claims are stated over: the last call and what it did.         *)
(***************************************************************************)
\* The last call is a Lookup outside a transaction.
NonTxLookup == call.method = MethodLookup /\ ~call.tx

\* What GetMulti returned to the last Lookup outside a transaction.
Cached == calls[1].values

\* A slot of the GetMulti result that holds a serialized EntityResult.
Usable(v) == v # Nil /\ Unmarshal(v) # UnmarshalError

HitSlots == {i \in DOMAIN Cached : Usable(Cached[i])}

MissSlots == {i \in DOMAIN call.keys : i \notin HitSlots}

RECURSIVE Ascending(_)
Ascending(S) ==
    IF S = {} THEN <<>>
    ELSE LET m == CHOOSE x \in S : \A y \in S : x <= y
         IN  <<m>> \o Ascending(S \ {m})

\* The entities served from the cache, in request order.
HitEntities == [j \in 1..Cardinality(HitSlots) |-> Unmarshal(Cached[Ascending(HitSlots)[j]])]

\* The keys that were not served from the cache, in request order.
MissKeys == [j \in 1..Cardinality(MissSlots) |-> call.keys[Ascending(MissSlots)[j]]]

\* The remote calls of the last call.
Invokes == SelectSeq(calls, LAMBDA c : c.op = "Invoke")

SetMultis == SelectSeq(calls, LAMBDA c : c.op = "SetMulti")

\* The last Lookup outside a transaction called the remote service, which succeeded.
Fetched == NonTxLookup /\ Len(calls) >= 2 /\ calls[2].op = "Invoke" /\ calls[2].err = NoErr

\* What the remote service holds for the keys.
DirectFound(keys) == {EntityResult(k, store[k]) : k \in RemoteFoundKeys(store, keys)}

(***************************************************************************)
(* The claims.                                                             *)
(***************************************************************************)
\* Every cache entry used for a requested key is the Datastore's entity of that key.
CacheAgrees ==
    \A i \in HitSlots :
        /\ store[call.keys[i]] # Absent
        /\ Unmarshal(Cached[i]) = EntityResult(call.keys[i], store[call.keys[i]])

\* C1: a Lookup outside a transaction whose cache entries agree with the
\* Datastore finds the same set of entities as the remote service finds for
\* the same keys.
C1_SameFoundAsRemote ==
    (NonTxLookup /\ ret = NoErr /\ CacheAgrees) => Range(out) = DirectFound(call.keys)

\* C1 witness: a Lookup with agreeing cache hits and remote finds.
C1_Witness ==
    /\ NonTxLookup /\ ret = NoErr /\ CacheAgrees
    /\ HitSlots # {} /\ Fetched /\ calls[2].found # <<>>

C3_AllCachedNoRemote ==
    (NonTxLookup /\ HitSlots = DOMAIN call.keys) =>
        /\ Len(calls) = 1
        /\ ret = NoErr
        /\ Len(out) = Len(call.keys)
        /\ \A i \in DOMAIN call.keys :
            /\ CacheIndex(call.keys[i]) \in DOMAIN items
            /\ out[i] = Unmarshal(items[CacheIndex(call.keys[i])].value)

\* C3 witness: two different keys, both served from the cache.
C3_Witness ==
    /\ NonTxLookup /\ HitSlots = DOMAIN call.keys
    /\ Len(call.keys) = 2 /\ call.keys[1] # call.keys[2] /\ out[1] # out[2]

\* C4: when the cache returns no hit at all for a non-empty key list, the
\* remote Lookup is issued with exactly the request's key list.
C4_NoHitFetchesAll ==
    (NonTxLookup /\ HitSlots = {} /\ call.keys # <<>>) =>
        /\ Len(Invokes) = 1
        /\ Invokes[1].req = call

\* C4 witness: GetMulti returned nil for keys the cache holds an entry for.
C4_Witness ==
    /\ NonTxLookup /\ HitSlots = {} /\ Len(call.keys) = 2
    /\ Cached = <<>>
    /\ \E k \in Range(call.keys) : CacheIndex(k) \in DOMAIN items

OutKeys == {out[i].key : i \in DOMAIN out}

\* C6: for a Lookup over distinct keys with some hits and some misses, the
\* merged reply has as many entities as keys when the remote service finds
\* every missed key and fewer otherwise, no key appears twice in it, and the
\* key of every cache hit and of every remote find is in it.
C6_MergedReplyComplete ==
    (NonTxLookup /\ IsDistinct(call.keys) /\ HitSlots # {} /\ MissSlots # {}
        /\ ret = NoErr) =>
        LET foundKeys == {e.key : e \in Range(Invokes[1].found)}
        IN  /\ Range(MissKeys) \subseteq foundKeys => Len(out) = Len(call.keys)
            /\ ~(Range(MissKeys) \subseteq foundKeys) => Len(out) < Len(call.keys)
            /\ IsDistinct([i \in DOMAIN out |-> out[i].key])
            /\ \A i \in HitSlots : call.keys[i] \in OutKeys
            /\ foundKeys \subseteq OutKeys

\* C7: when the Lookup interceptor returns, with success or with the error
\* of the remote call, the request's key list is the caller's key list.
C7_KeysRestored == call.method = MethodLookup => in.keys = call.keys

\* C8: a Lookup inside a transaction is forwarded once, unchanged, with no
\* Cacher call, and its reply and error are the remote ones.
C8_TransactionBypassesCache ==
    (call.method = MethodLookup /\ call.tx) =>
        /\ calls = <<CallInvoke(call, out, ret)>>
        /\ in = call

\* C8 witness: a Lookup in a transaction for a key whose cache entry is
\* usable and differs from what the reply holds.
C8_Witness ==
    /\ call.method = MethodLookup /\ call.tx /\ out # <<>>
    /\ \E i \in DOMAIN call.keys :
        /\ CacheIndex(call.keys[i]) \in DOMAIN items
        /\ Usable(items[CacheIndex(call.keys[i])].value)
        /\ Unmarshal(items[CacheIndex(call.keys[i])].value) \notin Range(out)

\* C9: a SetMulti of the Lookup path carries only keys of entities the remote
\* service found in that call: no key it reported missing and no key that
\* was served from the cache.
C9_SetMultiOnlyFetched ==
    (NonTxLookup /\ SetMultis # <<>>) =>
        /\ Len(SetMultis) = 1
        /\ Len(Invokes) = 1
        /\ Invokes[1].err = NoErr
        /\ \A k \in Range(SetMultis[1].keys) :
            /\ k \in {e.key : e \in Range(Invokes[1].found)}
            /\ store[k] # Absent
            /\ k \notin {call.keys[i] : i \in HitSlots}

\* C9 witness: a SetMulti after a Lookup with a cache hit, a remote find and
\* a key the remote service reported missing.
C9_Witness ==
    /\ NonTxLookup /\ SetMultis # <<>> /\ HitSlots # {}
    /\ \E k \in Range(Invokes[1].req.keys) : store[k] = Absent

\* C10: when the remote Lookup for the missed keys fails, the interceptor
\* returns that error, leaves the cache hits out of the reply and calls no
\* SetMulti, and the cache is as it was.
C10_RemoteFailurePropagated ==
    [][(call'.method = MethodLookup /\ ~call'.tx /\ Len(calls') >= 2
            /\ calls'[2].err # NoErr) =>
        /\ ret' = calls'[2].err
        /\ out' = <<>>
        /\ Len(calls') = 2
        /\ items' = items]_vars

\* C10 witness: the remote Lookup failed after a cache hit.
C10_Witness ==
    /\ NonTxLookup /\ Len(calls) = 2 /\ calls[2].err # NoErr
    /\ HitSlots # {}

\* A slot of the GetMulti result whose bytes do not decode to an EntityResult.
Undecodable(v) == v # Nil /\ Unmarshal(v) = UnmarshalError

\* C11: a cache read anomaly never fails a Lookup.  The key of an undecodable
\* cache entry is among the keys of the one remote Lookup and the entry is
\* not in the reply; after a GetMulti that returned nil for a list of keys
\* the remote Lookup carries the whole key list; in both cases the call
\* returns what the remote call returned.
C11_ReadAnomalyIsMiss ==
    NonTxLookup =>
        /\ \A i \in DOMAIN Cached : Undecodable(Cached[i]) =>
              /\ Len(Invokes) = 1
              /\ call.keys[i] \in Range(Invokes[1].req.keys)
              /\ UnmarshalError \notin Range(out)
              /\ ret = Invokes[1].err
        /\ (Cached = <<>> /\ call.keys # <<>>) =>
              /\ Len(Invokes) = 1
              /\ Invokes[1].req.keys = call.keys
              /\ ret = Invokes[1].err

\* C11 witness: a Lookup that met an undecodable entry next to a cache hit,
\* and whose remote call succeeded.
C11_Witness ==
    /\ NonTxLookup /\ HitSlots # {} /\ ret = NoErr
    /\ \E i \in DOMAIN Cached : Undecodable(Cached[i])

\* The last call is a Commit.
IsCommit == call.method = MethodCommit

DeleteMultis == SelectSeq(calls, LAMBDA c : c.op = "DeleteMulti")

\* The mutations of the last Commit that are no Insert, in mutation order.
Invalidating == SelectSeq(call.muts, LAMBDA m : m.op # "insert")

\* C12: after a successful remote Commit, DeleteMulti is called exactly once
\* with the keys of the Update, Upsert and Delete mutations in mutation
\* order, no Insert key among them; when there is no such mutation no
\* DeleteMulti is called and the Commit returns success.
C12_InvalidatesMutatedKeys ==
    (IsCommit /\ calls[1].err = NoErr) =>
        IF Invalidating # <<>>
        THEN /\ Len(DeleteMultis) = 1
             /\ DeleteMultis[1].keys = [i \in 1..Len(Invalidating) |-> Invalidating[i].key]
        ELSE /\ DeleteMultis = <<>>
             /\ ret = NoErr

\* C12 witness: a Commit of an Insert followed by another mutation.
C12_Witness ==
    /\ IsCommit /\ calls[1].err = NoErr
    /\ Len(call.muts) = 2 /\ call.muts[1].op = "insert" /\ Len(DeleteMultis) = 1

\* C13: DeleteMulti is called only after the remote Commit returned success;
\* when the remote Commit fails, its error is returned, the remote call is
\* the only call made and the cache is as it was.
C13_NoInvalidationBeforeCommit ==
    [][(call'.method = MethodCommit /\ calls' # <<>>) =>
        /\ calls'[1].op = "Invoke"
        /\ \A i \in DOMAIN calls' : calls'[i].op = "DeleteMulti" =>
              i > 1 /\ calls'[1].err = NoErr
        /\ calls'[1].err # NoErr =>
              /\ ret' = calls'[1].err
              /\ Len(calls') = 1
              /\ items' = items]_vars

\* C13 witness: a failed Commit of an Update of a key that has a cache entry.
C13_Witness ==
    /\ IsCommit /\ ret = ErrRemote
    /\ \E i \in DOMAIN call.muts :
        /\ call.muts[i].op = "update"
        /\ CacheIndex(call.muts[i].key) \in DOMAIN items

C15_NoRollback ==
    [][(call'.method = MethodCommit /\ Len(calls') = 2 /\ calls'[2].err # NoErr) =>
        \A k \in Keys :
            IF \E i \in DOMAIN call'.muts : call'.muts[i].key = k
            THEN \E i \in DOMAIN call'.muts :
                    call'.muts[i].key = k /\ store'[k] = call'.muts[i].data
            ELSE store'[k] = store[k]]_vars

\* C15 witness: after a Commit whose DeleteMulti failed, the cache entry of
\* a mutated key holds the entity as it was before the Commit.
C15_Witness ==
    /\ IsCommit /\ Len(calls) = 2 /\ calls[2].err # NoErr
    /\ \E i \in DOMAIN call.muts :
        LET k == call.muts[i].key
        IN  /\ CacheIndex(k) \in DOMAIN items
            /\ Unmarshal(items[CacheIndex(k)].value).key = k
            /\ Unmarshal(items[CacheIndex(k)].value).data # store[k]

ThroughRewriter == ~Idle /\ interceptor \in Rewriters

\* The last call is a structured query without projection through the rewriter.
EligibleQuery ==
    /\ ThroughRewriter
    /\ call.method = MethodRunQuery
    /\ call.query.type = "query"
    /\ call.query.projection = <<>>

\* The results of the keys-only query of the last rewritten call.
Scanned == calls[1].found.results

\* C17: a call of a method other than Lookup and Commit through the cache
\* interceptor, and a call of a method other than RunQuery through the query
\* rewriter, makes one call, the remote call with the caller's method,
\* request and reply, whose result it returns; no Cacher call is made.
C17_OtherMethodsForwarded ==
    (\/ ~Idle /\ interceptor = CacheInterceptor
              /\ call.method \notin {MethodLookup, MethodCommit}
     \/ ThroughRewriter /\ call.method # MethodRunQuery) =>
        /\ calls = <<CallInvoke(call, out, ret)>>
        /\ in = call

\* C17 witness: a Lookup in a transaction forwarded by the query rewriter,
\* with found entities.
C17_Witness ==
    /\ ThroughRewriter /\ call.method = MethodLookup /\ call.tx
    /\ ret = NoErr /\ out # <<>>

\* C18: a RunQuery call with a GQL query, or with a structured query that
\* has a projection, makes one remote call with the request as it is and no
\* Lookup; the request is unchanged and the reply is the remote reply.
C18_IneligibleQueryForwarded ==
    (/\ ThroughRewriter /\ call.method = MethodRunQuery
     /\ call.query.type = "gql" \/ call.query.projection # <<>>) =>
        /\ calls = <<CallInvoke(call, out, ret)>>
        /\ in = call
        /\ ret = NoErr => out = RemoteRunQuery(store, call.query)

\* C18 witness: a structured query with a projection on a property that
\* returned results.
C18_Witness ==
    /\ ThroughRewriter /\ call.method = MethodRunQuery
    /\ call.query.type = "query" /\ call.query.projection = PropertyProjection
    /\ ret = NoErr /\ out.results # <<>>

\* C19: after a successful rewrite, slot i of the reply batch holds the full
\* entity of the key the keys-only query returned in slot i, in whatever
\* order the Lookup reply lists the entities, and the result type is FULL.
C19_SplicedByKey ==
    (EligibleQuery /\ ret = NoErr /\ Len(calls) = 2) =>
        /\ out.type = ResultFull
        /\ Len(out.results) = Len(Scanned)
        /\ \A i \in DOMAIN Scanned :
            /\ out.results[i].key = Scanned[i].key
            /\ out.results[i] \in Range(calls[2].found)

\* C20: when the keys-only query of an eligible query returned results, the
\* rewriter makes one more call, a Lookup of the keys of the results in
\* batch order with the project id and the read options of the request.
C20_LookupOfScannedKeys ==
    (EligibleQuery /\ calls[1].err = NoErr /\ Scanned # <<>>) =>
        /\ Len(calls) = 2
        /\ calls[2].op = "Invoke"
        /\ calls[2].req.method = MethodLookup
        /\ calls[2].req.keys = [i \in 1..Len(Scanned) |-> Scanned[i].key]
        /\ calls[2].req.projectId = call.projectId
        /\ calls[2].req.tx = call.tx

\* C20 witness: the Lookup of a rewritten query in a transaction whose
\* keys-only query returned the keys in descending order.
C20_Witness ==
    /\ EligibleQuery /\ calls[1].err = NoErr /\ Len(Scanned) >= 2
    /\ call.tx /\ call.query.order = "desc"

\* The last call is a rewritten query whose keys-only query succeeded.
Scan == EligibleQuery /\ calls[1].err = NoErr

\* C21: when the keys-only query of an eligible query succeeds with no
\* result, the rewriter makes no other call and returns success, and the
\* reply is what the keys-only query wrote: its result type is not FULL.
C21_EmptyScanReturned ==
    (Scan /\ Scanned = <<>>) =>
        /\ Len(calls) = 1
        /\ ret = NoErr
        /\ out = calls[1].found
        /\ out.type # ResultFull

\* C21 witness: a query with limit 0 on a Datastore that holds entities.
C21_Witness ==
    /\ Scan /\ Scanned = <<>>
    /\ \E k \in Keys : store[k] # Absent

\* C22: when the Lookup of a rewritten query succeeds with a number of
\* found entities that differs from the number of keys, the rewriter
\* returns an error and the reply is as the keys-only query wrote it: no
\* slot replaced, result type not FULL.
C22_CountMismatchFails ==
    (/\ Scan /\ Len(calls) = 2 /\ calls[2].err = NoErr
     /\ Len(calls[2].found) # Len(calls[2].req.keys)) =>
        /\ ret # NoErr
        /\ out = calls[1].found
        /\ out.type # ResultFull

\* C22 witness: the Lookup found one entity of two keys.
C22_Witness ==
    /\ Scan /\ Len(calls) = 2 /\ calls[2].err = NoErr
    /\ Len(calls[2].req.keys) = 2 /\ Len(calls[2].found) = 1

\* C23: when the keys-only query fails, its error is returned and no Lookup
\* is made; when the Lookup fails, its error is returned and the reply is as
\* the keys-only query wrote it: no slot replaced, result type not FULL.
C23_FailuresPropagated ==
    EligibleQuery =>
        /\ calls[1].err # NoErr => ret = calls[1].err /\ Len(calls) = 1
        /\ (Len(calls) = 2 /\ calls[2].err # NoErr) =>
              /\ ret = calls[2].err
              /\ out = calls[1].found
              /\ out.type # ResultFull

\* C23 witness: the Lookup of a rewritten query failed.
C23_Witness ==
    EligibleQuery /\ Len(calls) = 2 /\ calls[2].err # NoErr /\ Scanned # <<>>

\* C24: when a rewritten query returns, on any path, the request is the
\* request of the caller: its query has no projection.
C24_ProjectionRestored ==
    EligibleQuery =>
        /\ in = call
        /\ in.query.projection = <<>>

\* C24 witness: a rewritten query that returned the count mismatch error,
\* after a keys-only query that was sent with the projection.
C24_Witness ==
    /\ EligibleQuery /\ ret = ErrLength
    /\ calls[1].req.query.projection = KeysOnly

\* C25: when an eligible query is rewritten with success over a Datastore
\* that did not change during the call, the reply is the reply the Datastore
\* gives to the same query sent directly: the same entities in the same
\* slots and the same result type.
C25_SameReplyAsDirectQuery ==
    [][(EligibleQuery' /\ ret' = NoErr /\ store' = store) =>
        out' = RemoteRunQuery(store, call'.query)]_vars

\* The last call is a structured query without projection through the chain
\* of the rewriter and the cache interceptor.
ChainedQuery ==
    /\ ~Idle /\ interceptor \in Chains
    /\ call.method = MethodRunQuery
    /\ call.query.type = "query"
    /\ call.query.projection = <<>>

\* The keys-only query of the last chained query returned results, and the
\* cache returned a usable entry for the key of each.
AllScannedCached ==
    /\ ChainedQuery /\ ~call.tx
    /\ calls[1].err = NoErr /\ Scanned # <<>>
    /\ Len(calls) >= 2 /\ calls[2].op = "GetMulti"
    /\ Len(calls[2].values) = Len(Scanned)
    /\ \A i \in DOMAIN Scanned : Usable(calls[2].values[i])

\* C26: through the chain, a query outside a transaction for whose keys the
\* cache holds usable entries makes one remote call, the keys-only RunQuery,
\* and no remote Lookup, and the reply holds the cached entities in the
\* slot order of the keys-only query.
C26_QueryServedFromCache ==
    AllScannedCached =>
        /\ Invokes = <<calls[1]>>
        /\ calls[1].req.method = MethodRunQuery
        /\ ret = NoErr
        /\ out.results = [i \in 1..Len(Scanned) |-> Unmarshal(calls[2].values[i])]

\* C27: when the context of a Lookup is cancelled after the cache read or
\* after the remote Lookup was issued, the Lookup case calls no SetMulti
\* afterwards.
C27_NoWriteAfterCancel ==
    NonTxLookup =>
        \A i, j \in DOMAIN calls :
            (calls[i].op = "Cancel" /\ i < j) => calls[j].op # "SetMulti"

\* The last call computed the cache index of two keys.
KeystrApplied == call.method = "keystr"

\* C28: two keys have the same keystr, in each of the three cache backends,
\* if and only if they have the same namespace and the same path elements.
C28_KeystrEqualIffKeysEqual ==
    KeystrApplied =>
        ((out[1] = out[2]) <=> (call.keys[1] = call.keys[2]))

\* The error e is a DelError.
IsDelError(e) == \E wrapped \in CacherErrors : e = DelError(wrapped)

\* C29: when the remote Commit succeeded and DeleteMulti failed, the Commit
\* returns a DelError, and Unwrap of it is the error DeleteMulti returned.
C29_InvalidationFailureIsDelError ==
    (IsCommit /\ calls[1].err = NoErr /\ DeleteMultis # <<>>
        /\ DeleteMultis[1].err # NoErr) =>
            (IsDelError(ret) /\ Unwrap(ret) = DeleteMultis[1].err)

\* The last call is a GetMulti of the in-memory Cache.
IsGetMulti == call.method = MethodGetMulti

\* The value the application stored for the key and did not delete, when it
\* has not expired; nil otherwise.
StoredValue(key) ==
    IF written[key] # NoItem /\ (expiration = 0 \/ written[key].exp >= now)
    THEN written[key].value
    ELSE Nil

\* C30: GetMulti of the in-memory Cache returns as many values as keys, and
\* slot i is the value stored for keys[i], or nil when nothing is stored for
\* that key or what is stored has expired.
C30_GetMultiReturnsStoredValues ==
    IsGetMulti =>
        /\ Len(out) = Len(call.keys)
        /\ \A i \in DOMAIN call.keys : out[i] = StoredValue(call.keys[i])

\* C31: DeleteMulti of the in-memory Cache returns nil and removes the
\* entries of the given keys, whether or not they had one; the entry of
\* every key that was not given is as it was (value and exp), and no entry
\* is added.
C31_DeleteMultiRemovesExactlyGiven ==
    [][(call'.method = MethodDeleteMulti /\ call.method # MethodDeleteMulti) =>
        /\ ret' = NoErr
        /\ \A k \in Range(call'.keys) : CacheIndex(k) \notin DOMAIN items'
        /\ \A k \in Keys \ Range(call'.keys) :
              CacheIndex(k) \in DOMAIN items =>
                /\ CacheIndex(k) \in DOMAIN items'
                /\ items'[CacheIndex(k)] = items[CacheIndex(k)]
        /\ DOMAIN items' \subseteq DOMAIN items]_vars

\* C32: in the in-memory Cache, SetMulti at time t with expiration d > 0
\* stamps its items with t + d, only SetMulti and DeleteMulti change items
\* (overwrite, delete), and GetMulti at time t' returns an item exactly
\* when t' <= t + d; with expiration 0 it returns every item there is.
C32_ReturnedUntilExpiry ==
    [][/\ (call'.method = MethodSetMulti /\ call.method # MethodSetMulti /\ expiration > 0) =>
            \A k \in Range(call'.keys) :
                /\ CacheIndex(k) \in DOMAIN items'
                /\ items'[CacheIndex(k)].exp = now + expiration
       /\ (call'.method \notin {MethodSetMulti, MethodDeleteMulti}) => items' = items
       /\ (call'.method = MethodGetMulti /\ call.method # MethodGetMulti) =>
            \A i \in DOMAIN call'.keys :
                LET s == CacheIndex(call'.keys[i])
                IN  IF s \in DOMAIN items
                       /\ (expiration = 0 \/ now <= items[s].exp)
                    THEN out'[i] = items[s].value
                    ELSE out'[i] = Nil]_vars

\* C32 witness: a GetMulti that returned an item at the very time its
\* expiration ends, later than the time it was stored.
C32_Witness ==
    /\ call.method = MethodGetMulti
    /\ expiration > 0
    /\ \E i \in DOMAIN call.keys :
        /\ CacheIndex(call.keys[i]) \in DOMAIN items
        /\ items[CacheIndex(call.keys[i])].exp = now
        /\ out[i] = items[CacheIndex(call.keys[i])].value
        /\ out[i] # Nil

\* C33: in a Lookup outside a transaction with a cache hit whose remote
\* Lookup succeeded and found nothing, the reply lists the cache hits in
\* request order, the call succeeds and SetMulti is not called.
C33_OnlyHitsWhenNothingFetched ==
    (Fetched /\ HitSlots # {} /\ calls[2].found = <<>>) =>
        /\ out = HitEntities
        /\ ret = NoErr
        /\ SetMultis = <<>>

\* C33 witness: such a Lookup with two hits around a key that is absent
\* from the Datastore.
C33_Witness ==
    /\ Fetched /\ calls[2].found = <<>>
    /\ HitSlots = {1, 3}
    /\ Len(out) = 2

\* C34: a Lookup outside a transaction calls GetMulti once and first, then
\* the remote Lookup at most once, then SetMulti at most once and only when
\* the remote Lookup returned success; nothing else is called.
C34_CacheThenRemoteThenSave ==
    NonTxLookup =>
        /\ Len(calls) \in 1..3
        /\ calls[1].op = "GetMulti"
        /\ Len(calls) >= 2 => calls[2].op = "Invoke"
        /\ Len(calls) = 3 => (calls[3].op = "SetMulti" /\ calls[2].err = NoErr)

\* C34 witness: a Lookup that made the three calls.
C34_Witness ==
    /\ NonTxLookup /\ Len(calls) = 3
    /\ HitSlots # {}

\* The entities the last remote Lookup returned that serialize, in reply order.
Serializable == SelectSeq(Invokes[1].found, LAMBDA e : e.data \in Data)

\* C35: the SetMulti of a Lookup outside a transaction has as many values as
\* keys; its keys are the keys of the fetched entities that serialize, in
\* reply order, and values[i] is the serialized entity of keys[i].  An entity
\* that does not serialize is in neither list, and the reply and the result
\* of the call are the same as when every entity serializes.
C35_SetMultiCoIndexed ==
    (NonTxLookup /\ SetMultis # <<>>) =>
        /\ Len(SetMultis[1].keys) = Len(SetMultis[1].values)
        /\ SetMultis[1].keys = [i \in DOMAIN Serializable |-> Serializable[i].key]
        /\ \A i \in DOMAIN SetMultis[1].values :
              /\ SetMultis[1].values[i].enc = "pb"
              /\ Unmarshal(SetMultis[1].values[i]) = Serializable[i]
        /\ out = Invokes[1].found \o HitEntities
        /\ ret = NoErr

\* C35 witness: a SetMulti that left out an entity that does not serialize
\* and stored another one.
C35_Witness ==
    /\ NonTxLookup /\ SetMultis # <<>>
    /\ SetMultis[1].keys # <<>>
    /\ Len(SetMultis[1].keys) < Len(Invokes[1].found)

\* C36: a method of the in-memory Cache that returns has done to the map,
\* and in GetMulti read from it, what the method does when it runs alone on
\* the map as it was when the method got the mutex: the calls take effect
\* one after the other, in the order they got the mutex.
C36_CacheCallsAtomic ==
    \A g \in Goroutines :
        running[g].pc = "locked" /\ running[g].i > Len(running[g].keys) =>
            LET r == running[g]
            IN  CASE r.op = MethodSetMulti -> items = SetMulti(r.before, r.keys, r.values)
                  [] r.op = MethodDeleteMulti -> items = DeleteMulti(r.before, r.keys)
                  [] OTHER -> items = r.before /\ r.ret = GetMulti(r.before, r.keys)

\* C36 witness: a GetMulti of two keys has finished its loop while a
\* SetMulti of the same keys, which it got ahead of, waits for the mutex.
C36_Witness ==
    \E g, h \in Goroutines :
        /\ running[g].pc = "locked" /\ running[g].i > Len(running[g].keys)
        /\ running[g].op = MethodGetMulti /\ Len(running[g].keys) = 2
        /\ running[h].pc = "waiting" /\ running[h].op = MethodSetMulti
        /\ Range(running[h].keys) = Range(running[g].keys)
        /\ items # <<>>

\* No call is under way.
Quiet == Idle /\ running = NoneRunning

\* C37: when the concurrent Lookups and Commits have all returned, and no
\* DeleteMulti failed, every cache entry holds the Datastore's current
\* entity of its key.
C37_NoStaleEntryAfterCalls ==
    Quiet =>
        \A s \in DOMAIN items :
            store[Unmarshal(items[s].value).key] = Unmarshal(items[s].value).data

\* C39: of two concurrent Lookups that are given the same request object,
\* each works on the key list the caller made, as it does when it runs
\* alone, and not on the missing keys the other put into the request.
C39_SharedRequestIndependent ==
    \A g \in Goroutines :
        running[g].pc # "idle" => running[g].keys = call.keys

\* What the cache holds for key k is nothing or the serialized current
\* entity of k in the Datastore; nothing when the Datastore has no such entity.
EntryAgrees(k) ==
    LET v == GetMulti(items, <<k>>)[1]
    IN  v # Nil => (store[k] # Absent /\ v = Marshal(EntityResult(k, store[k])))

\* The last call is a Lookup or a Commit through the interceptor in which no
\* DeleteMulti failed.
CleanCall ==
    /\ call.method \in {MethodLookup, MethodCommit}
    /\ \A i \in DOMAIN calls : calls[i].err # ErrDelCache

\* C38: in a history of Lookups and Commits that do not overlap, with no
\* failed DeleteMulti, no expiration and no other writer, after each call
\* the cache holds for every key nothing or the serialized current entity of
\* that key, and nothing for a key without an entity: each such call keeps
\* this true, and it is true of the empty cache.
C38_CacheAgreesWithStore ==
    [][((\A k \in Keys : EntryAgrees(k)) /\ Idle /\ CleanCall') =>
            (\A k \in Keys : EntryAgrees(k))']_vars

\* C40: every entity in the reply of a Lookup outside a transaction has one
\* of the keys of the request, whatever earlier Lookups left in the cache.
C40_FoundKeysAreRequested ==
    (NonTxLookup /\ ret = NoErr) => OutKeys \subseteq Range(call.keys)

====
